---- MODULE Spec2Model ----
(***************************************************************************)
(* Model of the s3multiframesink GStreamer element                         *)
(* (src/src/s3multiframesink.rs, src/src/put_object_handler.rs).           *)
(*                                                                         *)
(* The element owns two std::sync::Mutex values, `state` and `settings`.   *)
(* Every entry point takes them with `.lock().unwrap()`, so a panic while  *)
(* a guard is alive poisons the mutex and every later `.lock().unwrap()`   *)
(* on it panics in turn.  Threads of the host pipeline call start, stop,   *)
(* render, set_property and get_property concurrently.                     *)
(*                                                                         *)
(* Durations are counted in microseconds.  Strings that the code formats   *)
(* (object keys) are sequences of one-character strings.  Option<T> is a   *)
(* sequence of length 0 (None) or 1 (Some).                                *)
(***************************************************************************)
EXTENDS Integers, Sequences, FiniteSets, TLC

VARIABLES
    state,             \* the value inside Mutex<State>
    state_lock,        \* NoThread when the state mutex is free, else its owner
    state_poisoned,    \* the state mutex's poison flag
    settings,          \* the value inside Mutex<Settings>
    settings_lock,     \* NoThread when the settings mutex is free, else its owner
    settings_poisoned, \* the settings mutex's poison flag
    th,                \* per thread: position in the current call and its locals
    dispatched,        \* sequence numbers of the frames whose first put_object
                       \* was issued since the last successful start()
    jin, jout,         \* argument and outcome of a stand-alone jitter() call
    kin, kout          \* arguments and result of create_put_object_request()

vars == <<state, state_lock, state_poisoned, settings, settings_lock,
          settings_poisoned, th, dispatched, jin, jout, kin, kout>>

sinkvars == <<state, state_lock, state_poisoned, settings, settings_lock,
              settings_poisoned, th, dispatched>>

purevars == <<jin, jout, kin, kout>>

-----------------------------------------------------------------------------
(* Bounds of the model *)

\* frames rendered in one Started session
MaxFrames == 3
\* largest attempt number handed to a stand-alone jitter() call
MaxAttemptArg == 34
\* largest frame sequence number handed to create_put_object_request()
MaxSeq == 120

\* The host threads that call into the element: the application thread and
\* the pipeline's streaming thread
Threads == {"app", "streaming"}
\* the owner of a mutex nobody holds
NoThread == "none"

-----------------------------------------------------------------------------
(* Program constants *)

\* PutObjectHandler::new(5, *frame_num)
max_attempts == 5
\* jitter_max: Duration::from_secs(32), in microseconds
jitter_max == 32000000
\* jitter_base: Duration::from_millis(5), in microseconds
jitter_base == 5000
\* FutureRetry numbers the attempts it reports to the handler from 1
first_attempt == 1
\* 2_u32.pow(e) exceeds u32::MAX from this exponent on
u32_bits == 32
\* the width in "{:0>2}"
pad_width == 2

None == <<>>
Some(x) == <<x>>

\* Values the host can give the properties
Buckets == {"bkt"}
DemoPrefix == <<"d", "e", "m", "o">>
KeyPrefixes == {DemoPrefix}
DefaultRegion == "us-east-1"
Regions == {DefaultRegion, "eu-west-2"}
Bodies == {"png"}

Min(a, b) == IF a <= b THEN a ELSE b

-----------------------------------------------------------------------------
(* Backoff: PutObjectHandler::jitter *)

\* self.jitter_base.mul(k) for k = 2^e, by e doublings.  Doubling stops once
\* the product has reached jitter_max: min() then returns jitter_max whatever
\* the product is.
RECURSIVE MulPow2(_, _)
MulPow2(d, e) ==
    IF e = 0 \/ d >= jitter_max THEN d ELSE MulPow2(2 * d, e - 1)

\* (2_u32).pow(attempt as u32) overflows u32
PowOverflows(attempt) == attempt >= u32_bits

\* temp = jitter_max.min(jitter_base.mul(2^attempt)); with overflow checks off
\* the overflowing power wraps to 0
JitterTemp(attempt) ==
    IF PowOverflows(attempt) THEN 0
    ELSE Min(jitter_max, MulPow2(jitter_base, attempt))

\* temp.div(2).as_millis(): the exclusive upper end of gen_range(0, _)
JitterRange(attempt) == (JitterTemp(attempt) \div 2) \div 1000

\* jitter() panics: on the overflowing power when the build checks overflow,
\* and in gen_range(low, high) when low >= high
JitterPanics(attempt, overflow_checks) ==
    \/ PowOverflows(attempt) /\ overflow_checks
    \/ JitterRange(attempt) <= 0

\* jitter() with the halving of temp forgotten in the first summand
jitter_unhalved(attempt, r) == JitterTemp(attempt) + r * 1000

\* temp / 2 + Duration::from_millis(r), r the value gen_range returned
jitter(attempt, r) == (JitterTemp(attempt) \div 2) + r * 1000

\* the values of the random source the sink's retry loop is run with
RngDraws(n) == {0, n - 1}

-----------------------------------------------------------------------------
(* Frame numbering and the retry policy (ErrorHandler::handle) *)

\* upload_image_frame with the increment of frame_num left out
NextFrameNum_same(n) == n

\* `*frame_num += 1` at the head of upload_image_frame
NextFrameNum(n) == n + 1

\* render() with the state guard dropped before the upload is run
RenderStateGuard_dropped(t) == NoThread

\* render()'s `state` guard lives until render() returns: the thread that
\* runs the upload of thread t's frame still owns the state mutex
RenderStateGuard(t) == t

\* handle() giving up one failure early
handle_early(attempt) ==
    IF attempt >= max_attempts THEN "ForwardError" ELSE "WaitRetry"

\* handle() giving up one failure late
handle_late(attempt) ==
    IF attempt > max_attempts + 1 THEN "ForwardError" ELSE "WaitRetry"

handle(attempt) ==
    IF attempt > max_attempts THEN "ForwardError" ELSE "WaitRetry"

-----------------------------------------------------------------------------
(* Object key: create_put_object_request *)

Digit(d) == <<"0", "1", "2", "3", "4", "5", "6", "7", "8", "9">>[d + 1]

\* Display of a u64
RECURSIVE Decimal(_)
Decimal(n) ==
    IF n < 10 THEN <<Digit(n)>> ELSE Decimal(n \div 10) \o <<Digit(n % 10)>>

\* "{:0>2}": right-aligned, filled with '0' up to the width, never cut
RECURSIVE PadLeft(_, _)
PadLeft(s, width) == IF Len(s) >= width THEN s ELSE PadLeft(<<"0">> \o s, width)

FrameLit == <<"/", "f", "r", "a", "m", "e">>
PngLit == <<".", "p", "n", "g">>

\* the key with the frame number printed unpadded, as by "{}"
FormatKey_unpadded(key, frame_count) ==
    key \o FrameLit \o Decimal(frame_count) \o PngLit

\* format!("{}/frame{:0>2}.png", key, frame_count)
FormatKey(key, frame_count) ==
    key \o FrameLit \o PadLeft(Decimal(frame_count), pad_width) \o PngLit

\* the request with a fixed bucket and prefix in place of the configured ones
create_put_object_request_fallback(frame_count, vec, bucket, key) ==
    [bucket |-> "example-bucket-rusoto",
     key |-> FormatKey(<<"d", "e", "j", "a", "_", "v", "u">>, frame_count),
     body |-> vec]

create_put_object_request(frame_count, vec, bucket, key) ==
    [bucket |-> bucket, key |-> FormatKey(key, frame_count), body |-> vec]

-----------------------------------------------------------------------------
(* Bucket provisioning: the or_else of create_bucket_if_extant *)

CreateBucketOutcomes == {"Ok", "BucketAlreadyOwnedByYou", "OtherError"}

\* or_else without the BucketAlreadyOwnedByYou arm
BucketCreationOk_strict(outcome) == outcome = "Ok"

BucketCreationOk(outcome) == outcome \in {"Ok", "BucketAlreadyOwnedByYou"}

-----------------------------------------------------------------------------
(* Thread records *)

NoRequest == [bucket |-> "", key |-> <<>>, body |-> ""]

Idle == [pc |-> "idle", op |-> "none", ret |-> "none", blocked |-> FALSE,
         arg |-> "", val |-> None, vec |-> "", bucket |-> "", key |-> <<>>,
         frame_num |-> 0, attempt |-> 0, calls |-> 0, fails |-> 0,
         waits |-> 0, delay |-> 0, reply |-> "", request |-> NoRequest]

\* the record of a thread whose call has returned r (or unwound, r = "panic")
Returned(rec, r) == [rec EXCEPT !.pc = "done", !.ret = r]

Stopped == [kind |-> "Stopped", frame_num |-> 0]
Started(n) == [kind |-> "Started", frame_num |-> n]

DefaultSettings == [bucket |-> None, key |-> None, region |-> DefaultRegion]

SinkInit ==
    /\ state = Stopped
    /\ state_lock = NoThread
    /\ state_poisoned = FALSE
    /\ settings = DefaultSettings
    /\ settings_lock = NoThread
    /\ settings_poisoned = FALSE
    /\ th = [t \in Threads |-> Idle]
    /\ dispatched = <<>>

NoJitter == [st |-> "none", wait |-> 0]
NoKey == [k1 |-> <<>>, k2 |-> <<>>]

Init ==
    /\ SinkInit
    /\ jin = [attempt |-> 0, overflow_checks |-> FALSE]
    /\ jout = NoJitter
    /\ kin = [prefix |-> DemoPrefix, n |-> 1, m |-> 1]
    /\ kout = NoKey

-----------------------------------------------------------------------------
(* A host thread enters a call; it then waits for the first mutex *)

\* frame_num stays within MaxFrames when one more render() is called: every
\* render() that has been called and has not taken the state mutex yet may
\* still increment it
FramesLeft ==
    state.kind = "Started" =>
        state.frame_num + Cardinality({u \in Threads : th[u].pc = "render"})
            < MaxFrames

Call(t) ==
    /\ th[t].pc = "idle"
    /\ \E o \in {"start", "stop", "render", "set_property", "get_property"} :
         /\ o = "render" => FramesLeft
         /\ th' = [th EXCEPT ![t] =
                     [Idle EXCEPT !.pc = o, !.op = o,
                                  !.blocked = (o = "stop" /\ state_lock # NoThread)]]
    /\ UNCHANGED <<state, state_lock, state_poisoned, settings, settings_lock,
                   settings_poisoned, dispatched>>
    /\ UNCHANGED purevars

Return(t) ==
    /\ th[t].pc = "done"
    /\ th' = [th EXCEPT ![t] = Idle]
    /\ UNCHANGED <<state, state_lock, state_poisoned, settings, settings_lock,
                   settings_poisoned, dispatched>>
    /\ UNCHANGED purevars

-----------------------------------------------------------------------------
(* ObjectImpl::set_property / get_property *)

SetPropertyArgs ==
    {"bucket_none", "bucket_some", "key_none", "key_some",
     "region_none", "region_invalid", "region_valid"}

\* the new settings after a set_property that does not panic
SetValue(arg, old) ==
    CASE arg = "bucket_none" -> {[old EXCEPT !.bucket = None]}
      [] arg = "bucket_some" -> {[old EXCEPT !.bucket = Some(b)] : b \in Buckets}
      [] arg = "key_none" -> {[old EXCEPT !.key = None]}
      [] arg = "key_some" -> {[old EXCEPT !.key = Some(k)] : k \in KeyPrefixes}
      [] OTHER -> {[old EXCEPT !.region = r] : r \in Regions}

SetProperty(t) ==
    /\ th[t].pc = "set_property"
    /\ settings_lock = NoThread
    /\ \E a \in SetPropertyArgs :
         IF settings_poisoned
         THEN /\ th' = [th EXCEPT ![t] = Returned([@ EXCEPT !.arg = a], "panic")]
              /\ UNCHANGED <<settings, settings_poisoned>>
         ELSE IF a \in {"region_none", "region_invalid"}
         THEN \* .expect("region value not provided") or
              \* .expect("invalid region provided") with the guard alive
              /\ settings_poisoned' = TRUE
              /\ th' = [th EXCEPT ![t] = Returned([@ EXCEPT !.arg = a], "panic")]
              /\ UNCHANGED settings
         ELSE /\ settings' \in SetValue(a, settings)
              /\ th' = [th EXCEPT ![t] = Returned([@ EXCEPT !.arg = a], "unit")]
              /\ UNCHANGED settings_poisoned
    /\ UNCHANGED <<state, state_lock, state_poisoned, settings_lock, dispatched>>
    /\ UNCHANGED purevars

GetProperty(t) ==
    /\ th[t].pc = "get_property"
    /\ settings_lock = NoThread
    /\ \E a \in {"bucket", "key", "region"} :
         IF settings_poisoned
         THEN th' = [th EXCEPT ![t] = Returned([@ EXCEPT !.arg = a], "panic")]
         ELSE th' = [th EXCEPT ![t] =
                       Returned([@ EXCEPT !.arg = a,
                                          !.val = CASE a = "bucket" -> settings.bucket
                                                    [] a = "key" -> settings.key
                                                    [] OTHER -> Some(settings.region)],
                                "Ok")]
    /\ UNCHANGED <<state, state_lock, state_poisoned, settings, settings_lock,
                   settings_poisoned, dispatched>>
    /\ UNCHANGED purevars

-----------------------------------------------------------------------------
(* BaseSinkImpl::start *)

\* self.state.lock().unwrap() and the Started check
StartLock(t) ==
    /\ th[t].pc = "start"
    /\ state_lock = NoThread
    /\ IF state_poisoned
       THEN /\ th' = [th EXCEPT ![t] = Returned(@, "panic")]
            /\ UNCHANGED <<state_lock, state_poisoned>>
       ELSE IF state.kind = "Started"
       THEN \* unreachable!("S3MultiFrameSink already started")
            /\ state_poisoned' = TRUE
            /\ th' = [th EXCEPT ![t] = Returned(@, "panic")]
            /\ UNCHANGED state_lock
       ELSE /\ state_lock' = t
            /\ th' = [th EXCEPT ![t].pc = "start_region"]
            /\ UNCHANGED state_poisoned
    /\ UNCHANGED <<state, settings, settings_lock, settings_poisoned, dispatched>>
    /\ UNCHANGED purevars

StartSettingsGuard_kept(t) == t

\* the owner of the settings mutex once start() has built its client:
\* drop(settings) releases the guard before create_bucket_if_extant locks again
StartSettingsGuard(t) == NoThread

\* settings.lock().unwrap(); S3Client::new(settings.region.clone()); drop(settings)
StartRegion(t) ==
    /\ th[t].pc = "start_region"
    /\ settings_lock = NoThread
    /\ IF settings_poisoned
       THEN /\ th' = [th EXCEPT ![t] = Returned(@, "panic")]
            /\ state_lock' = NoThread
            /\ state_poisoned' = TRUE
            /\ UNCHANGED settings_lock
       ELSE /\ th' = [th EXCEPT ![t].pc = "start_bucket",
                                ![t].val = Some(settings.region)]
            /\ settings_lock' = StartSettingsGuard(t)
            /\ UNCHANGED <<state_lock, state_poisoned>>
    /\ UNCHANGED <<state, settings, settings_poisoned, dispatched>>
    /\ UNCHANGED purevars

\* create_bucket_if_extant up to the create_bucket call: the settings guard
\* is taken again and stays alive across block_on
CreateBucketLock(t) ==
    /\ th[t].pc = "start_bucket"
    /\ settings_lock = NoThread
    /\ IF settings_poisoned
       THEN /\ th' = [th EXCEPT ![t] = Returned(@, "panic")]
            /\ state_lock' = NoThread
            /\ state_poisoned' = TRUE
            /\ UNCHANGED <<settings_lock, settings_poisoned>>
       ELSE IF settings.bucket = None
       THEN \* .expect("Bucket should be set by start time")
            /\ th' = [th EXCEPT ![t] = Returned(@, "panic")]
            /\ state_lock' = NoThread
            /\ state_poisoned' = TRUE
            /\ settings_poisoned' = TRUE
            /\ UNCHANGED settings_lock
       ELSE /\ th' = [th EXCEPT ![t].pc = "create_bucket",
                                ![t].bucket = settings.bucket[1]]
            /\ settings_lock' = t
            /\ UNCHANGED <<state_lock, state_poisoned, settings_poisoned>>
    /\ UNCHANGED <<state, settings, dispatched>>
    /\ UNCHANGED purevars

SessionStart_resumed(old) == Started(old.frame_num + 1)

\* *state = State::Started { frame_num: 0, s3client }, whatever the state
\* held before
SessionStart(old) == Started(0)

\* the create_bucket call returns; start() ends
CreateBucketReply(t) ==
    /\ th[t].pc = "create_bucket"
    /\ \E outcome \in CreateBucketOutcomes :
         IF BucketCreationOk(outcome)
         THEN /\ state' = SessionStart(state)
              /\ dispatched' = <<>>
              /\ th' = [th EXCEPT ![t] = Returned([@ EXCEPT !.reply = outcome], "Ok")]
         ELSE /\ th' = [th EXCEPT ![t] = Returned([@ EXCEPT !.reply = outcome], "Err")]
              /\ UNCHANGED <<state, dispatched>>
    /\ state_lock' = NoThread
    /\ settings_lock' = NoThread
    /\ UNCHANGED <<state_poisoned, settings, settings_poisoned>>
    /\ UNCHANGED purevars

-----------------------------------------------------------------------------
(* BaseSinkImpl::stop *)

Stop(t) ==
    /\ th[t].pc = "stop"
    /\ state_lock = NoThread
    /\ IF state_poisoned
       THEN /\ th' = [th EXCEPT ![t] = Returned(@, "panic")]
            /\ UNCHANGED state
       ELSE IF state.kind = "Stopped"
       THEN /\ th' = [th EXCEPT ![t] = Returned(@, "Err")]
            /\ UNCHANGED state
       ELSE /\ state' = Stopped
            /\ th' = [th EXCEPT ![t] = Returned(@, "Ok")]
    /\ UNCHANGED <<state_lock, state_poisoned, settings, settings_lock,
                   settings_poisoned, dispatched>>
    /\ UNCHANGED purevars

-----------------------------------------------------------------------------
(* BaseSinkImpl::render and S3MultiFrameSink::upload_image_frame *)

FrameNumOnMapError_consumed(n) == n + 1

\* frame_num after map_readable() failed: `?` returns from render() before
\* upload_image_frame is called
FrameNumOnMapError(n) == n

\* self.state.lock().unwrap(), the match on the state, buffer.map_readable()
\* and, inside upload_image_frame, `*frame_num += 1`; the buffer is looked at
\* only once the state is known to be Started
RenderLock(t) ==
    /\ th[t].pc = "render"
    /\ state_lock = NoThread
    /\ IF state_poisoned
       THEN /\ th' = [th EXCEPT ![t] = Returned(@, "panic")]
            /\ UNCHANGED <<state, state_lock>>
       ELSE IF state.kind = "Stopped"
       THEN \* "Not started yet"
            /\ th' = [th EXCEPT ![t] = Returned(@, "FlowError")]
            /\ UNCHANGED <<state, state_lock>>
       ELSE \E a \in {"mappable", "unmappable"} :
              IF a = "unmappable"
              THEN \* "Failed to map buffer"
                   /\ th' = [th EXCEPT ![t] = Returned([@ EXCEPT !.arg = a],
                                                       "FlowError")]
                   /\ state' = Started(FrameNumOnMapError(state.frame_num))
                   /\ UNCHANGED state_lock
              ELSE /\ \E v \in Bodies :
                        th' = [th EXCEPT ![t].pc = "upload_settings",
                                         ![t].arg = a, ![t].vec = v]
                   /\ state' = Started(NextFrameNum(state.frame_num))
                   /\ state_lock' = RenderStateGuard(t)
    /\ UNCHANGED <<state_poisoned, settings, settings_lock, settings_poisoned,
                   dispatched>>
    /\ UNCHANGED purevars

\* self.settings.lock().unwrap(), the two unwrap()s and the first put_object:
\* FutureRetry issues the first call at once, with no wait
UploadSettings(t) ==
    /\ th[t].pc = "upload_settings"
    /\ settings_lock = NoThread
    /\ IF settings_poisoned
       THEN /\ th' = [th EXCEPT ![t] = Returned(@, "panic")]
            /\ state_lock' = NoThread
            /\ state_poisoned' = TRUE
            /\ UNCHANGED <<settings_lock, settings_poisoned, dispatched>>
       ELSE IF settings.bucket = None \/ settings.key = None
       THEN \* settings.bucket.as_ref().unwrap() / settings.key.as_ref().unwrap()
            /\ th' = [th EXCEPT ![t] = Returned(@, "panic")]
            /\ state_lock' = NoThread
            /\ state_poisoned' = TRUE
            /\ settings_poisoned' = TRUE
            /\ UNCHANGED <<settings_lock, dispatched>>
       ELSE /\ th' = [th EXCEPT
                        ![t].pc = "put_object",
                        ![t].bucket = settings.bucket[1],
                        ![t].key = settings.key[1],
                        ![t].frame_num = state.frame_num,
                        ![t].attempt = first_attempt,
                        ![t].calls = 1,
                        ![t].request = create_put_object_request(
                            state.frame_num, th[t].vec,
                            settings.bucket[1], settings.key[1])]
            /\ settings_lock' = t
            /\ dispatched' = Append(dispatched, state.frame_num)
            /\ UNCHANGED <<state_lock, state_poisoned, settings_poisoned>>
    /\ UNCHANGED <<state, settings>>
    /\ UNCHANGED purevars

FlowResult_ok(result) == "FlowOk"

\* .map(|_| gst::FlowSuccess::Ok).map_err(|_| gst::FlowError::Error) on what
\* block_on returns
FlowResult(result) == IF result = "Ok" THEN "FlowOk" ELSE "FlowError"

\* put_object succeeds: block_on returns Ok, render() returns FlowSuccess::Ok
PutOk(t) ==
    /\ th[t].pc = "put_object"
    /\ th' = [th EXCEPT ![t] = Returned([@ EXCEPT !.reply = "Ok"], FlowResult("Ok"))]
    /\ state_lock' = NoThread
    /\ settings_lock' = NoThread
    /\ UNCHANGED <<state, state_poisoned, settings, settings_poisoned, dispatched>>
    /\ UNCHANGED purevars

\* put_object fails: FutureRetry hands the error and the attempt number to
\* handle(), which forwards the error or asks for a wait of jitter(attempt)
PutErr(t) ==
    /\ th[t].pc = "put_object"
    /\ LET a == th[t].attempt
           rec == [th[t] EXCEPT !.reply = "Err", !.fails = @ + 1,
                                !.attempt = a + 1]
       IN IF handle(a) = "ForwardError"
          THEN /\ th' = [th EXCEPT ![t] = Returned(rec, FlowResult("Err"))]
               /\ state_lock' = NoThread
               /\ settings_lock' = NoThread
               /\ UNCHANGED <<state_poisoned, settings_poisoned>>
          ELSE IF \A c \in BOOLEAN : JitterPanics(a, c)
          THEN /\ th' = [th EXCEPT ![t] = Returned(rec, "panic")]
               /\ state_lock' = NoThread
               /\ settings_lock' = NoThread
               /\ state_poisoned' = TRUE
               /\ settings_poisoned' = TRUE
          ELSE /\ \E r \in RngDraws(JitterRange(a)) :
                    th' = [th EXCEPT ![t] =
                             [rec EXCEPT !.pc = "retry_wait",
                                         !.waits = @ + 1,
                                         !.delay = jitter(a, r)]]
               /\ UNCHANGED <<state_lock, settings_lock, state_poisoned,
                              settings_poisoned>>
    /\ UNCHANGED <<state, settings, dispatched>>
    /\ UNCHANGED purevars

\* the backoff timer fires: the closure builds the request again and calls
\* put_object
RetryPut(t) ==
    /\ th[t].pc = "retry_wait"
    /\ th' = [th EXCEPT
                ![t].pc = "put_object",
                ![t].delay = 0,
                ![t].calls = @ + 1,
                ![t].request = create_put_object_request(
                    state.frame_num, th[t].vec, th[t].bucket, th[t].key)]
    /\ UNCHANGED <<state, state_lock, state_poisoned, settings, settings_lock,
                   settings_poisoned, dispatched>>
    /\ UNCHANGED purevars

-----------------------------------------------------------------------------
(* The element under concurrent calls *)

SinkNext ==
    \E t \in Threads :
        \/ Call(t)
        \/ Return(t)
        \/ SetProperty(t)
        \/ GetProperty(t)
        \/ StartLock(t)
        \/ StartRegion(t)
        \/ CreateBucketLock(t)
        \/ CreateBucketReply(t)
        \/ Stop(t)
        \/ RenderLock(t)
        \/ UploadSettings(t)
        \/ PutOk(t)
        \/ PutErr(t)
        \/ RetryPut(t)

Next == SinkNext

Spec == Init /\ [][Next]_vars

\* what thread t does inside a call, from the first lock() to the return value
Step(t) ==
    \/ SetProperty(t) \/ GetProperty(t)
    \/ StartLock(t) \/ StartRegion(t) \/ CreateBucketLock(t)
    \/ CreateBucketReply(t)
    \/ Stop(t)
    \/ RenderLock(t) \/ UploadSettings(t) \/ PutOk(t) \/ PutErr(t) \/ RetryPut(t)

\* The element with threads that keep running, storage calls and timers that
\* come back, and mutexes that let no waiter starve: a thread inside a call
\* takes its next step if that step is possible again and again. The host is
\* free never to call again.
LiveSpec == Spec /\ \A t \in Threads : SF_vars(Step(t))

-----------------------------------------------------------------------------
(* jitter() on its own: every attempt number up to MaxAttemptArg, both     *)
(* build profiles, every value gen_range can return                        *)

JitterInit ==
    /\ SinkInit
    /\ jin \in [attempt : 0..MaxAttemptArg, overflow_checks : BOOLEAN]
    /\ jout = NoJitter
    /\ kin = [prefix |-> DemoPrefix, n |-> 1, m |-> 1]
    /\ kout = NoKey

JitterCall ==
    /\ jout.st = "none"
    /\ IF JitterPanics(jin.attempt, jin.overflow_checks)
       THEN jout' = [st |-> "panic", wait |-> 0]
       ELSE \E r \in 0..(JitterRange(jin.attempt) - 1) :
                jout' = [st |-> "ret", wait |-> jitter(jin.attempt, r)]
    /\ UNCHANGED <<sinkvars, jin, kin, kout>>

JitterSpec == JitterInit /\ [][JitterCall]_vars

-----------------------------------------------------------------------------
(* create_put_object_request() on its own: the keys of two frames          *)

KeyInit ==
    /\ SinkInit
    /\ jin = [attempt |-> 0, overflow_checks |-> FALSE]
    /\ jout = NoJitter
    /\ kin \in [prefix : KeyPrefixes, n : 1..MaxSeq, m : 1..MaxSeq]
    /\ kout = NoKey

BuildKeys ==
    /\ kout = NoKey
    /\ \E v \in Bodies, b \in Buckets :
         kout' = [k1 |-> create_put_object_request(kin.n, v, b, kin.prefix).key,
                  k2 |-> create_put_object_request(kin.m, v, b, kin.prefix).key]
    /\ UNCHANGED <<sinkvars, jin, jout, kin>>

KeySpec == KeyInit /\ [][BuildKeys]_vars

-----------------------------------------------------------------------------
(* Properties *)

Uploading(t) == th[t].pc \in {"upload_settings", "put_object", "retry_wait"}

RenderDone(t) == th[t].op = "render" /\ th[t].pc = "done"

\* C1: within one Started session the frames that reach their first
\* put_object carry the sequence numbers 1, 2, 3, ... in that order, whatever
\* the outcome of the earlier uploads.
SeqNumbersConsecutive ==
    \A i \in 1..Len(dispatched) : dispatched[i] = i

\* frame 2 is being uploaded after frame 1 ran out of retries
SeqNumbersWitness ==
    \E t, u \in Threads :
        /\ RenderDone(t) /\ th[t].ret = "FlowError" /\ th[t].frame_num = 1
        /\ th[t].fails = max_attempts + 1
        /\ th[u].pc = "put_object" /\ th[u].frame_num = 2
        /\ dispatched = <<1, 2>>

\* C2: an upload whose every put_object call failed has made exactly
\* max_attempts + 1 calls when render() returns, and render() returns a flow
\* error; no upload ever makes more calls than that.
ExhaustionAfterAllAttempts ==
    \A t \in Threads :
        /\ th[t].calls <= max_attempts + 1
        /\ (RenderDone(t) /\ th[t].calls > 0 /\ th[t].fails = th[t].calls)
             => (th[t].calls = max_attempts + 1 /\ th[t].ret = "FlowError")

ExhaustionWitness ==
    \E t \in Threads :
        /\ RenderDone(t) /\ th[t].ret = "FlowError"
        /\ th[t].calls = max_attempts + 1 /\ th[t].fails = max_attempts + 1
        /\ th[t].waits = max_attempts

\* C3: an upload that ends on a successful put_object after k failures has
\* made k + 1 calls and k waits, with k <= max_attempts, and render() returns
\* success; an upload is given up only after more than max_attempts failures.
SuccessEndsRetrying ==
    \A t \in Threads :
        /\ (RenderDone(t) /\ th[t].reply = "Ok")
             => /\ th[t].ret = "FlowOk"
                /\ th[t].calls = th[t].fails + 1
                /\ th[t].waits = th[t].fails
                /\ th[t].fails <= max_attempts
        /\ (RenderDone(t) /\ th[t].reply = "Err")
             => th[t].fails > max_attempts

\* success on the last call the budget allows
SuccessWitness ==
    \E t \in Threads :
        /\ RenderDone(t) /\ th[t].ret = "FlowOk"
        /\ th[t].fails = max_attempts /\ th[t].calls = max_attempts + 1

\* C4: when a stop() has returned Ok and the state is Stopped, no thread has
\* an upload in progress: no put_object call is pending and no retry wait is
\* running.
StopLeavesNoUpload ==
    \A t \in Threads :
        (th[t].op = "stop" /\ th[t].pc = "done" /\ th[t].ret = "Ok"
         /\ state.kind = "Stopped")
            => \A u \in Threads : ~Uploading(u)

\* stop() was called while the other thread held the state mutex for an
\* upload that went through a retry wait, and has returned after it
StopWitness ==
    \E t, u \in Threads :
        /\ th[t].op = "stop" /\ th[t].pc = "done" /\ th[t].ret = "Ok"
        /\ th[t].blocked
        /\ state.kind = "Stopped"
        /\ RenderDone(u) /\ th[u].waits > 0

\* C5: a start() that finds the state Started returns an error and leaves
\* the state as it was.
StartWhileStartedIsAnError ==
    [][\A t \in Threads :
          (th[t].pc = "start" /\ th'[t].pc = "done" /\ state.kind = "Started")
              => (th'[t].ret = "Err" /\ state' = state)]_vars

\* C6: a stop() that runs while the state is Stopped returns an error and
\* the state stays Stopped.
StopWhileStoppedIsAnError ==
    [][\A t \in Threads :
          (th[t].pc = "stop" /\ th'[t].pc = "done" /\ state.kind = "Stopped")
              => (th'[t].ret = "Err" /\ state' = Stopped)]_vars

\* C7: a render() that runs while the state is Stopped returns a flow error,
\* has made no put_object call, and the state stays Stopped.
RenderWhileStoppedIsAFlowError ==
    [][\A t \in Threads :
          (th[t].pc = "render" /\ th'[t].pc = "done" /\ state.kind = "Stopped")
              => (th'[t].ret = "FlowError" /\ th'[t].calls = 0
                  /\ state' = Stopped)]_vars

\* C8: a start() that began in Stopped ends in Started{frame_num = 0},
\* returning Ok, exactly when its create_bucket call returned success or
\* BucketAlreadyOwnedByYou; after any other create_bucket failure it returns
\* an error and the state is still Stopped.
StartFollowsBucketCreation ==
    [][\A t \in Threads :
          (th[t].op = "start" /\ th[t].pc # "done" /\ th'[t].pc = "done"
           /\ state.kind = "Stopped")
              => /\ (state' = Started(0) /\ th'[t].ret = "Ok")
                       <=> th'[t].reply \in {"Ok", "BucketAlreadyOwnedByYou"}
                 /\ th'[t].reply \notin {"Ok", "BucketAlreadyOwnedByYou"}
                       => state' = Stopped
                 /\ th'[t].reply = "OtherError" => th'[t].ret = "Err"]_vars

\* start() has gone through on BucketAlreadyOwnedByYou
StartWitness ==
    \E t \in Threads :
        /\ th[t].op = "start" /\ th[t].pc = "done" /\ th[t].ret = "Ok"
        /\ th[t].reply = "BucketAlreadyOwnedByYou"
        /\ state = Started(0)

DigitChars == {"0", "1", "2", "3", "4", "5", "6", "7", "8", "9"}

DigitValue(c) ==
    CASE c = "0" -> 0 [] c = "1" -> 1 [] c = "2" -> 2 [] c = "3" -> 3
      [] c = "4" -> 4 [] c = "5" -> 5 [] c = "6" -> 6 [] c = "7" -> 7
      [] c = "8" -> 8 [] OTHER -> 9

\* the number a string of decimal digits denotes
RECURSIVE DecimalValue(_)
DecimalValue(d) ==
    IF Len(d) = 0 THEN 0
    ELSE 10 * DecimalValue(SubSeq(d, 1, Len(d) - 1)) + DigitValue(d[Len(d)])

\* k is prefix, "/frame", the decimal digits of n with leading zeros up to
\* two digits and none beyond, ".png"
IsFrameKey(k, prefix, n) ==
    LET lo == Len(prefix) + Len(FrameLit) + 1
        hi == Len(k) - Len(PngLit)
        d == SubSeq(k, lo, hi)
    IN /\ hi - lo + 1 >= 2
       /\ SubSeq(k, 1, Len(prefix)) = prefix
       /\ SubSeq(k, Len(prefix) + 1, lo - 1) = <<"/", "f", "r", "a", "m", "e">>
       /\ SubSeq(k, hi + 1, Len(k)) = <<".", "p", "n", "g">>
       /\ \A i \in 1..Len(d) : d[i] \in DigitChars
       /\ DecimalValue(d) = n
       /\ Len(d) > 2 => d[1] # "0"

Demo01 == <<"d", "e", "m", "o", "/", "f", "r", "a", "m", "e", "0", "1",
            ".", "p", "n", "g">>
Demo02 == <<"d", "e", "m", "o", "/", "f", "r", "a", "m", "e", "0", "2",
            ".", "p", "n", "g">>
Demo12 == <<"d", "e", "m", "o", "/", "f", "r", "a", "m", "e", "1", "2",
            ".", "p", "n", "g">>

\* C9: the key of frame n is "{key_prefix}/frame{n}.png" with n in decimal,
\* zero-padded to at least two digits and never cut; for "demo" the frames
\* 1, 2 and 12 get demo/frame01.png, demo/frame02.png and demo/frame12.png;
\* two different sequence numbers get two different keys.
KeyFormat ==
    kout # NoKey =>
        /\ IsFrameKey(kout.k1, kin.prefix, kin.n)
        /\ IsFrameKey(kout.k2, kin.prefix, kin.m)
        /\ (kin.prefix = DemoPrefix /\ kin.n = 1) => kout.k1 = Demo01
        /\ (kin.prefix = DemoPrefix /\ kin.n = 2) => kout.k1 = Demo02
        /\ (kin.prefix = DemoPrefix /\ kin.n = 12) => kout.k1 = Demo12
        /\ kin.n # kin.m => kout.k1 # kout.k2

\* frame 12 next to a three-digit frame with the same last two digits
KeyWitness ==
    /\ kin.prefix = DemoPrefix /\ kin.n = 12 /\ kin.m = 112
    /\ kout.k1 = Demo12
    /\ Len(kout.k2) = Len(Demo12) + 1

\* min(32 s, 5 ms * 2^attempt) in microseconds; 5 ms * 2^13 = 40.96 s is
\* the first product above 32 s
Capped(attempt) ==
    IF attempt >= 13 THEN 32000000 ELSE Min(32000000, 5000 * 2^attempt)

JitterSaturates ==
    (jout.st # "none" /\ jin.attempt >= u32_bits) =>
        /\ jout.st = "ret"
        /\ 2 * jout.wait >= jitter_max
        /\ jout.wait < jitter_max

\* C12: while a thread has a create_bucket or put_object call in progress,
\* or waits between two attempts, it holds neither the state mutex nor the
\* settings mutex.
NoLockAcrossStorageCall ==
    \A t \in Threads :
        th[t].pc \in {"create_bucket", "put_object", "retry_wait"}
            => (state_lock # t /\ settings_lock # t)

\* C13: a render() that finds the state Started and the bucket or the key
\* prefix unset returns a flow error without any put_object call, and leaves
\* the state Started and both mutexes usable.
RenderWithoutSettingsIsAFlowError ==
    [][\A t \in Threads :
          (th[t].pc = "upload_settings" /\ th'[t].pc = "done"
           /\ ~settings_poisoned
           /\ (settings.bucket = None \/ settings.key = None))
              => /\ th'[t].ret = "FlowError"
                 /\ th'[t].calls = 0
                 /\ state'.kind = "Started"
                 /\ ~state_poisoned' /\ ~settings_poisoned']_vars

\* the step in which thread t's upload runs out of retries
Exhausts(t) ==
    th[t].pc = "put_object" /\ th'[t].pc = "done" /\ th'[t].reply = "Err"

\* the step in which thread t issues the first put_object of a frame
Dispatches(t) == th[t].pc = "upload_settings" /\ th'[t].pc = "put_object"

ExhaustedRender(t) ==
    RenderDone(t) /\ th[t].reply = "Err" /\ th[t].fails = max_attempts + 1

\* C14: when the upload of a frame runs out of retries, render() returns a
\* flow error and nothing else changes: the state stays Started with the same
\* frame_num, both mutexes are released and unpoisoned, settings and the
\* other thread are untouched. Every frame dispatched afterwards takes the
\* next sequence number and starts its own attempt count, and a stop() that
\* then finds the state Started returns Ok.
ExhaustionIsConfined ==
    [][\A t \in Threads :
          /\ Exhausts(t) =>
                /\ th'[t].ret = "FlowError"
                /\ state.kind = "Started" /\ state' = state
                /\ ~state_poisoned' /\ ~settings_poisoned'
                /\ state_lock' = NoThread /\ settings_lock' = NoThread
                /\ settings' = settings /\ dispatched' = dispatched
                /\ \A u \in Threads \ {t} : th'[u] = th[u]
          /\ Dispatches(t) =>
                /\ th'[t].frame_num = Len(dispatched) + 1
                /\ th'[t].attempt = first_attempt
                /\ th'[t].calls = 1 /\ th'[t].fails = 0 /\ th'[t].waits = 0
          /\ (th[t].pc = "stop" /\ th'[t].pc = "done" /\ ~state_poisoned
              /\ state.kind = "Started"
              /\ \E u \in Threads \ {t} : ExhaustedRender(u)) =>
                (th'[t].ret = "Ok" /\ state' = Stopped)]_vars

\* frame 1 ran out of retries, frame 2 was dispatched after it, and stop()
\* then returned Ok
ExhaustionWitnessConfined ==
    \E t, u \in Threads :
        /\ t # u
        /\ ExhaustedRender(t) /\ th[t].frame_num = 1 /\ th[t].ret = "FlowError"
        /\ dispatched = <<1, 2>>
        /\ th[u].op = "stop" /\ th[u].pc = "done" /\ th[u].ret = "Ok"
        /\ state = Stopped

\* the step in which thread t issues a put_object again after a wait
Retries(t) == th[t].pc = "retry_wait" /\ th'[t].pc = "put_object"

\* C15: the first put_object of a frame carries the bucket and the key
\* prefix that settings hold when the upload begins, the frame's sequence
\* number and the copied bytes; every later attempt for the frame carries the
\* request of the attempt before it, and settings do not change while the
\* frame is being uploaded, whatever set_property calls other threads make.
AttemptsCarryTheSameRequest ==
    [][\A t \in Threads :
          /\ Dispatches(t) =>
                /\ Some(th'[t].request.bucket) = settings.bucket
                /\ IsFrameKey(th'[t].request.key, settings.key[1],
                              Len(dispatched) + 1)
                /\ th'[t].request.body = th[t].vec
          /\ Retries(t) => th'[t].request = th[t].request
          /\ th[t].pc \in {"put_object", "retry_wait"} => settings' = settings]_vars

\* a frame at its second or later attempt while the other thread has called
\* set_property
SameRequestWitness ==
    \E t, u \in Threads :
        /\ th[t].pc = "put_object" /\ th[t].calls >= 2
        /\ th[u].pc = "set_property"

\* the step in which thread t's render() finds the state Started and fails to
\* map its buffer
MapFails(t) ==
    /\ th[t].pc = "render" /\ th'[t].pc = "done"
    /\ th'[t].arg = "unmappable"

MisuseCall(t) ==
    /\ ~state_poisoned
    /\ th'[t].pc = "done"
    /\ \/ th[t].pc = "start" /\ state.kind = "Started"
       \/ th[t].pc = "stop" /\ state.kind = "Stopped"
       \/ th[t].pc = "render" /\ state.kind = "Stopped"

\* C17: a misuse call changes nothing that a later call can see: the state,
\* the settings and both mutexes (owner and poison flag) are after the call
\* what they were before it.
MisuseIsFatalToTheCallOnly ==
    [][\A t \in Threads :
          MisuseCall(t) =>
              UNCHANGED <<state, state_lock, state_poisoned, settings,
                          settings_lock, settings_poisoned>>]_vars

\* C18: at most one thread is between the increment of frame_num and the end
\* of its upload; its frame is the newest one; a thread whose render() has
\* not yet taken the state mutex has made no put_object call; and render()
\* returns after a put_object call only when the upload succeeded or ran out
\* of retries.
OneUploadAtATime ==
    /\ Cardinality({t \in Threads : Uploading(t)}) <= 1
    /\ \A t \in Threads :
          /\ Uploading(t) => (state_lock = t /\ state.kind = "Started")
          /\ th[t].pc \in {"put_object", "retry_wait"} =>
                (th[t].frame_num = state.frame_num
                 /\ dispatched[Len(dispatched)] = th[t].frame_num)
          /\ th[t].pc = "render" => th[t].calls = 0
          /\ (RenderDone(t) /\ th[t].calls > 0 /\ th[t].ret # "panic") =>
                \/ th[t].reply = "Ok" /\ th[t].ret = "FlowOk"
                \/ th[t].reply = "Err" /\ th[t].fails = max_attempts + 1

\* one render() waits between two attempts while the other thread's render()
\* waits for the state mutex
OneUploadWitness ==
    \E t, u \in Threads :
        /\ th[t].pc = "retry_wait" /\ th[t].fails >= 1
        /\ th[u].pc = "render" /\ th[u].calls = 0

InCall(t) == th[t].pc \notin {"idle", "done"}

\* a thread holds the settings mutex across steps only inside start() and
\* render(), where it took the state mutex before
LockOrder == \A t \in Threads : settings_lock = t => state_lock = t

\* some thread inside a call can take a step whenever a call is in progress
NoDeadlock ==
    (\E t \in Threads : InCall(t)) => \E t \in Threads : ENABLED Step(t)

NumberingRestartsPerSession ==
    [][\A t \in Threads :
          /\ (th[t].pc = "create_bucket" /\ th'[t].ret = "Ok") =>
                (state'.kind = "Started" /\ state'.frame_num = 0)
          /\ (th[t].pc = "stop" /\ th'[t].ret = "Ok") => state' = Stopped
          /\ (Dispatches(t) /\ dispatched = <<>>) =>
                /\ th'[t].frame_num = 1
                /\ th'[t].request.key =
                      settings.key[1] \o <<"/", "f", "r", "a", "m", "e", "0",
                                           "1", ".", "p", "n", "g">>]_vars

\* a frame 1 was uploaded in an earlier session and the frame 1 of the
\* present session is put under the same bucket and key
KeyReuseWitness ==
    \E t, u \in Threads :
        /\ t # u
        /\ RenderDone(t) /\ th[t].calls > 0 /\ th[t].frame_num = 1
        /\ th[u].pc = "put_object" /\ th[u].frame_num = 1
        /\ th[u].request.bucket = th[t].request.bucket
        /\ th[u].request.key = th[t].request.key
        /\ th[u].request.key = Demo01

====
